---- MODULE Spec2Model ----
(***************************************************************************)
(* A model of crystaldiskmark_parser/parser.py: the line recognisers of    *)
(* rx_dict, the first-match dispatch of __parse_line, the line loop of     *)
(* parse with its read_or_write state, and the flattening of parse_df.     *)
(*                                                                         *)
(* Text is modelled at character level.  A Python str is a sequence of     *)
(* one-character strings, so that the regular expressions, str.strip(),    *)
(* str.lower(), int() and float() are computed on the characters, as the   *)
(* interpreter computes them.  Str() turns such a sequence into a TLA+     *)
(* string where the program stores the text in a field.                    *)
(***************************************************************************)
EXTENDS Integers, Sequences, FiniteSets, TLC

-----------------------------------------------------------------------------
(* Python values *)

\* Python's None.  A field holds None or Some(v), so that None differs from
\* every string, the empty string and the text "None" included.
None == <<>>

Some(v) == <<v>>

\* The characters of a str joined into one string.
RECURSIVE Str(_)
Str(cs) == IF cs = <<>> THEN "" ELSE Head(cs) \o Str(Tail(cs))

\* The characters \s matches and str.strip() removes (those for which
\* str.isspace() holds), among the characters up to U+00FF, which are the
\* ones a string of this module can hold: space, \t, \n, \r, \f, and,
\* written as the characters themselves, \x0b (\v), \x1c, \x1d, \x1e,
\* \x1f, \x85 and \xa0.
WhiteSpace ==
    {" ", "\t", "\n", "\r", "\f", "", "", "", "", "",
     "", " "}

Digits == {"0", "1", "2", "3", "4", "5", "6", "7", "8", "9"}

\* The value of a decimal digit.
DigitValue(ch) ==
    CASE ch = "0" -> 0 [] ch = "1" -> 1 [] ch = "2" -> 2 [] ch = "3" -> 3
      [] ch = "4" -> 4 [] ch = "5" -> 5 [] ch = "6" -> 6 [] ch = "7" -> 7
      [] ch = "8" -> 8 [] ch = "9" -> 9

\* str.lower() on one character.
LowerChar(ch) ==
    CASE ch = "A" -> "a" [] ch = "B" -> "b" [] ch = "C" -> "c" [] ch = "D" -> "d"
      [] ch = "E" -> "e" [] ch = "F" -> "f" [] ch = "G" -> "g" [] ch = "H" -> "h"
      [] ch = "I" -> "i" [] ch = "J" -> "j" [] ch = "K" -> "k" [] ch = "L" -> "l"
      [] ch = "M" -> "m" [] ch = "N" -> "n" [] ch = "O" -> "o" [] ch = "P" -> "p"
      [] ch = "Q" -> "q" [] ch = "R" -> "r" [] ch = "S" -> "s" [] ch = "T" -> "t"
      [] ch = "U" -> "u" [] ch = "V" -> "v" [] ch = "W" -> "w" [] ch = "X" -> "x"
      [] ch = "Y" -> "y" [] ch = "Z" -> "z" [] OTHER -> ch

\* str.lower()
Lower(cs) == [i \in 1..Len(cs) |-> LowerChar(cs[i])]

\* str.lstrip()
RECURSIVE LStrip(_)
LStrip(cs) ==
    IF cs # <<>> /\ Head(cs) \in WhiteSpace THEN LStrip(Tail(cs)) ELSE cs

\* str.rstrip()
RECURSIVE RStrip(_)
RStrip(cs) ==
    IF cs # <<>> /\ cs[Len(cs)] \in WhiteSpace
    THEN RStrip(SubSeq(cs, 1, Len(cs) - 1))
    ELSE cs

\* str.strip()
Strip(cs) == RStrip(LStrip(cs))

\* int(s) for a run of decimal digits (what \d+ captures).
RECURSIVE IntOf(_)
IntOf(cs) ==
    IF cs = <<>> THEN 0
    ELSE 10 * IntOf(SubSeq(cs, 1, Len(cs) - 1)) + DigitValue(cs[Len(cs)])

\* The number of "." in a text.
RECURSIVE CountDots(_)
CountDots(cs) ==
    IF cs = <<>> THEN 0
    ELSE (IF Head(cs) = "." THEN 1 ELSE 0) + CountDots(Tail(cs))

\* The index of the first "." of a text, Len + 1 when it has none.
RECURSIVE DotIndex(_)
DotIndex(cs) ==
    IF cs = <<>> \/ Head(cs) = "." THEN 1 ELSE 1 + DotIndex(Tail(cs))

\* A decimal value num / 10^scale in lowest decimal form: 1.50 and 1.5 are
\* the same value, 1.0 and 1 too.
RECURSIVE Decimal(_, _)
Decimal(num, scale) ==
    IF scale > 0 /\ num % 10 = 0 THEN Decimal(num \div 10, scale - 1)
    ELSE [num |-> num, scale |-> scale]

\* Whether float(s) accepts a text made of digits, "." and "," (what
\* [\d\.\,]+ captures): digits with at most one ".", at least one digit, and
\* no ",".  float() raises ValueError on everything else.
FloatOk(cs) ==
    /\ \A i \in 1..Len(cs) : cs[i] \in Digits \cup {"."}
    /\ CountDots(cs) <= 1
    /\ \E i \in 1..Len(cs) : cs[i] \in Digits

\* float(s) where FloatOk(s): the decimal value the text denotes.
FloatOf(cs) ==
    LET d    == DotIndex(cs)
        ip   == SubSeq(cs, 1, d - 1)
        fp   == SubSeq(cs, d + 1, Len(cs))
    IN  Decimal(IntOf(ip \o fp), Len(fp))

-----------------------------------------------------------------------------
(* Regular expressions: re.compile(...).search(line) *)

\* Character classes of the patterns: \s, \S, \d, [\d\.\,] and "." (any
\* character but a newline).
InClass(c, ch) ==
    CASE c = "s" -> ch \in WhiteSpace
      [] c = "S" -> ch \notin WhiteSpace
      [] c = "d" -> ch \in Digits
      [] c = "n" -> ch \in Digits \cup {".", ","}
      [] c = "." -> ch # "\n"

\* Pattern items: a literal text, a greedy repetition X* (min 0) or X+
\* (min 1) of a class, and an ordered alternation of literal texts.  g names
\* the group that captures the item, "" when it is not captured.
Lit(s) == [t |-> "lit", s |-> s, c |-> "", min |-> 0, g |-> "", opts |-> <<>>]

Rep(c, min, g) == [t |-> "rep", s |-> <<>>, c |-> c, min |-> min, g |-> g, opts |-> <<>>]

Alt(opts, g) == [t |-> "alt", s |-> <<>>, c |-> "", min |-> 0, g |-> g, opts |-> opts]

NoMatch == [ok |-> FALSE, groups |-> <<>>]

\* Whether text s occurs in line at position pos.
HasAt(line, pos, s) ==
    /\ pos + Len(s) - 1 <= Len(line)
    /\ \A k \in 1..Len(s) : line[pos + k - 1] = s[k]

\* The length of the longest run of class c in line from position pos.
RECURSIVE Run(_, _, _)
Run(line, pos, c) ==
    IF pos <= Len(line) /\ InClass(c, line[pos]) THEN 1 + Run(line, pos + 1, c)
    ELSE 0

\* groups with group g set to text, unless g is "".
Capture(groups, g, text) ==
    IF g = "" THEN groups
    ELSE (g :> text) @@ groups

\* The backtracking matcher: items i.. of pat against line from pos.  A
\* repetition takes the longest run first and gives characters back one at a
\* time; an alternation tries its options in order.
RECURSIVE MatchAt(_, _, _, _, _)
RECURSIVE TryRep(_, _, _, _, _, _)
RECURSIVE TryAlt(_, _, _, _, _, _)
MatchAt(pat, i, line, pos, groups) ==
    IF i > Len(pat) THEN [ok |-> TRUE, groups |-> groups]
    ELSE LET it == pat[i] IN
         CASE it.t = "lit" ->
                IF HasAt(line, pos, it.s)
                THEN MatchAt(pat, i + 1, line, pos + Len(it.s), groups)
                ELSE NoMatch
           [] it.t = "rep" -> TryRep(pat, i, line, pos, groups, Run(line, pos, it.c))
           [] it.t = "alt" -> TryAlt(pat, i, line, pos, groups, 1)

TryRep(pat, i, line, pos, groups, k) ==
    IF k < pat[i].min THEN NoMatch
    ELSE LET r == MatchAt(pat, i + 1, line, pos + k,
                          Capture(groups, pat[i].g, SubSeq(line, pos, pos + k - 1)))
         IN  IF r.ok THEN r ELSE TryRep(pat, i, line, pos, groups, k - 1)

TryAlt(pat, i, line, pos, groups, o) ==
    IF o > Len(pat[i].opts) THEN NoMatch
    ELSE LET s == pat[i].opts[o]
             r == IF HasAt(line, pos, s)
                  THEN MatchAt(pat, i + 1, line, pos + Len(s),
                               Capture(groups, pat[i].g, s))
                  ELSE NoMatch
         IN  IF r.ok THEN r ELSE TryAlt(pat, i, line, pos, groups, o + 1)

\* A faulty variant of Search: rx.match(line), which matches at the start of
\* the line only.
SearchAnchored(pat, line) == MatchAt(pat, 1, line, 1, <<>>)

\* rx.search(line): the match at the leftmost position where the pattern
\* matches (the empty match at the end of the line included), NoMatch when
\* there is none.
Search(pat, line) ==
    LET starts == {p \in 1..(Len(line) + 1) : MatchAt(pat, 1, line, p, <<>>).ok}
    IN  IF starts = {} THEN NoMatch
        ELSE MatchAt(pat, 1, line,
                     CHOOSE p \in starts : \A q \in starts : p <= q, <<>>)

-----------------------------------------------------------------------------
(* rx_dict: the recognisers, in the order the dict holds them *)

\* A faulty variant of rx_test_res: the pattern without its final \n.
rx_test_res_NoNewline ==
    << Rep("s", 0, ""),
       Alt(<< <<"S", "E", "Q">>, <<"R", "N", "D">>,
              <<"S", "e", "q", "u", "e", "n", "t", "i", "a", "l">>,
              <<"R", "a", "n", "d", "o", "m">> >>, "type"),
       Rep("s", 0, ""),
       Rep("d", 1, "blocksize"),
       Rep("S", 1, "ublocksize"),
       Rep("s", 0, ""),
       Lit(<<"(", "Q", "=">>),
       Rep("s", 0, ""),
       Rep("d", 1, "queue"),
       Lit(<<",", " ", "T", "=">>),
       Rep("s", 0, ""),
       Rep("d", 1, "threads"),
       Lit(<<")", ":">>),
       Rep("s", 0, ""),
       Rep("n", 1, "rate"),
       Lit(<<" ">>),
       Rep("S", 1, "urate"),
       Rep("s", 0, ""),
       Lit(<<"[">>),
       Rep("s", 0, ""),
       Rep("n", 1, "iops"),
       Lit(<<" ">>),
       Rep("S", 1, "uiops"),
       Lit(<<"]">>),
       Rep("s", 0, ""),
       Lit(<<"<">>),
       Rep("s", 0, ""),
       Rep("n", 1, "us"),
       Lit(<<" ">>),
       Rep("S", 1, "uus"),
       Lit(<<">">>),
       Rep("s", 0, "") >>

\* r"\s*(?P<type>SEQ|RND|Sequential|Random)\s*(?P<blocksize>\d+)(?P<ublocksize>\S+)
\*   \s*\(Q=\s*(?P<queue>\d+), T=\s*(?P<threads>\d+)\):\s*(?P<rate>[\d\.\,]+) (?P<urate>\S+)
\*   \s*\[\s*(?P<iops>[\d\.\,]+) (?P<uiops>\S+)\]\s*<\s*(?P<us>[\d\.\,]+) (?P<uus>\S+)>\s*\n"
rx_test_res ==
    << Rep("s", 0, ""),
       Alt(<< <<"S", "E", "Q">>, <<"R", "N", "D">>,
              <<"S", "e", "q", "u", "e", "n", "t", "i", "a", "l">>,
              <<"R", "a", "n", "d", "o", "m">> >>, "type"),
       Rep("s", 0, ""),
       Rep("d", 1, "blocksize"),
       Rep("S", 1, "ublocksize"),
       Rep("s", 0, ""),
       Lit(<<"(", "Q", "=">>),
       Rep("s", 0, ""),
       Rep("d", 1, "queue"),
       Lit(<<",", " ", "T", "=">>),
       Rep("s", 0, ""),
       Rep("d", 1, "threads"),
       Lit(<<")", ":">>),
       Rep("s", 0, ""),
       Rep("n", 1, "rate"),
       Lit(<<" ">>),
       Rep("S", 1, "urate"),
       Rep("s", 0, ""),
       Lit(<<"[">>),
       Rep("s", 0, ""),
       Rep("n", 1, "iops"),
       Lit(<<" ">>),
       Rep("S", 1, "uiops"),
       Lit(<<"]">>),
       Rep("s", 0, ""),
       Lit(<<"<">>),
       Rep("s", 0, ""),
       Rep("n", 1, "us"),
       Lit(<<" ">>),
       Rep("S", 1, "uus"),
       Lit(<<">">>),
       Rep("s", 0, ""),
       Lit(<<"\n">>) >>

\* r"\s*\[(?P<read_or_write>Read|Write|Mix)\]\s*"
rx_read_or_write ==
    << Rep("s", 0, ""),
       Lit(<<"[">>),
       Alt(<< <<"R", "e", "a", "d">>, <<"W", "r", "i", "t", "e">>,
              <<"M", "i", "x">> >>, "read_or_write"),
       Lit(<<"]">>),
       Rep("s", 0, "") >>

\* r"\s*Profile: (?P<profile>.+)\s*"
rx_profile ==
    << Rep("s", 0, ""),
       Lit(<<"P", "r", "o", "f", "i", "l", "e", ":", " ">>),
       Rep(".", 1, "profile"),
       Rep("s", 0, "") >>

\* r"\s*Test: (?P<test>.+)\s*"
rx_test ==
    << Rep("s", 0, ""),
       Lit(<<"T", "e", "s", "t", ":", " ">>),
       Rep(".", 1, "test"),
       Rep("s", 0, "") >>

\* r"\s*Mode: (?P<mode>.+)\s*"
rx_mode ==
    << Rep("s", 0, ""),
       Lit(<<"M", "o", "d", "e", ":", " ">>),
       Rep(".", 1, "mode"),
       Rep("s", 0, "") >>

\* r"\s*Time: (?P<time>.+)\s*"
rx_time ==
    << Rep("s", 0, ""),
       Lit(<<"T", "i", "m", "e", ":", " ">>),
       Rep(".", 1, "time"),
       Rep("s", 0, "") >>

\* r"\s*Date: (?P<date>.+)\s*"
rx_date ==
    << Rep("s", 0, ""),
       Lit(<<"D", "a", "t", "e", ":", " ">>),
       Rep(".", 1, "date"),
       Rep("s", 0, "") >>

\* r"\s*OS: (?P<os>.+)\s*"
rx_os ==
    << Rep("s", 0, ""),
       Lit(<<"O", "S", ":", " ">>),
       Rep(".", 1, "os"),
       Rep("s", 0, "") >>

\* r"\s*Comment: (?P<comment>.+)\s*"
rx_comment ==
    << Rep("s", 0, ""),
       Lit(<<"C", "o", "m", "m", "e", "n", "t", ":", " ">>),
       Rep(".", 1, "comment"),
       Rep("s", 0, "") >>

\* A faulty variant of rx_dict: the section header recogniser comes first.
rx_dictHeaderFirst ==
    << [key |-> "read_or_write", rx |-> rx_read_or_write],
       [key |-> "test_res", rx |-> rx_test_res],
       [key |-> "profile", rx |-> rx_profile],
       [key |-> "test", rx |-> rx_test],
       [key |-> "mode", rx |-> rx_mode],
       [key |-> "time", rx |-> rx_time],
       [key |-> "date", rx |-> rx_date],
       [key |-> "os", rx |-> rx_os],
       [key |-> "comment", rx |-> rx_comment] >>

\* The dict in insertion order, which is the order __parse_line tries the
\* recognisers in.
rx_dict ==
    << [key |-> "test_res", rx |-> rx_test_res],
       [key |-> "read_or_write", rx |-> rx_read_or_write],
       [key |-> "profile", rx |-> rx_profile],
       [key |-> "test", rx |-> rx_test],
       [key |-> "mode", rx |-> rx_mode],
       [key |-> "time", rx |-> rx_time],
       [key |-> "date", rx |-> rx_date],
       [key |-> "os", rx |-> rx_os],
       [key |-> "comment", rx |-> rx_comment] >>

\* __parse_line: the key and the match of the first recogniser of rx_dict
\* that matches the line; key None when no recogniser does.
RECURSIVE parse_line_from(_, _)
parse_line_from(line, k) ==
    IF k > Len(rx_dict) THEN [key |-> None, match |-> NoMatch]
    ELSE LET m == Search(rx_dict[k].rx, line)
         IN  IF m.ok THEN [key |-> Some(rx_dict[k].key), match |-> m]
             ELSE parse_line_from(line, k + 1)

parse_line(line) == parse_line_from(line, 1)

-----------------------------------------------------------------------------
(* The input: the lines file.readline() can return *)

\* The texts of the modelled report lines, by name.  A line ends with its
\* newline, as readline() returns it.
Text ==
    \* [Read]\n
    [ hdr_read |->
      <<"[", "R", "e", "a", "d", "]", "\n">>,
    \* [Write]\n
      hdr_write |->
      <<"[", "W", "r", "i", "t", "e", "]", "\n">>,
    \* [Mix]\n
      hdr_mix |->
      <<"[", "M", "i", "x", "]", "\n">>,
    \*   SEQ    1MiB (Q=  8, T= 1):   531.458 MB/s [    506.8 IOPS] < 15726.77 us>\n
      seq |->
      <<" ", " ", "S", "E", "Q", " ", " ", " ", " ", "1", "M", "i", "B", " ",
        "(", "Q", "=", " ", " ", "8", ",", " ", "T", "=", " ", "1", ")", ":",
        " ", " ", " ", "5", "3", "1", ".", "4", "5", "8", " ", "M", "B", "/",
        "s", " ", "[", " ", " ", " ", " ", "5", "0", "6", ".", "8", " ", "I",
        "O", "P", "S", "]", " ", "<", " ", "1", "5", "7", "2", "6", ".", "7",
        "7", " ", "u", "s", ">", "\n">>,
    \*   RND    4KiB (Q= 32, T=16):   269.406 MB/s [  65772.9 IOPS] <   470.58 us>\n
      rnd |->
      <<" ", " ", "R", "N", "D", " ", " ", " ", " ", "4", "K", "i", "B", " ",
        "(", "Q", "=", " ", "3", "2", ",", " ", "T", "=", "1", "6", ")", ":",
        " ", " ", " ", "2", "6", "9", ".", "4", "0", "6", " ", "M", "B", "/",
        "s", " ", "[", " ", " ", "6", "5", "7", "7", "2", ".", "9", " ", "I",
        "O", "P", "S", "]", " ", "<", " ", " ", " ", "4", "7", "0", ".", "5",
        "8", " ", "u", "s", ">", "\n">>,
    \*   SEQ    1MiB (Q=  8, T= 1): 1,234.56 MB/s [    506.8 IOPS] < 15726.77 us>\n
      seq_comma |->
      <<" ", " ", "S", "E", "Q", " ", " ", " ", " ", "1", "M", "i", "B", " ",
        "(", "Q", "=", " ", " ", "8", ",", " ", "T", "=", " ", "1", ")", ":",
        " ", "1", ",", "2", "3", "4", ".", "5", "6", " ", "M", "B", "/", "s",
        " ", "[", " ", " ", " ", " ", "5", "0", "6", ".", "8", " ", "I", "O",
        "P", "S", "]", " ", "<", " ", "1", "5", "7", "2", "6", ".", "7", "7",
        " ", "u", "s", ">", "\n">>,
    \* \n
      blank |->
      <<"\n">>,
    \* ------------------\n
      banner |->
      <<"-", "-", "-", "-", "-", "-", "-", "-", "-", "-", "-", "-", "-", "-",
        "-", "-", "-", "-", "\n">>,
    \* * KB = 1000 bytes, KiB = 1024 bytes\n
      heading |->
      <<"*", " ", "K", "B", " ", "=", " ", "1", "0", "0", "0", " ", "b", "y",
        "t", "e", "s", ",", " ", "K", "i", "B", " ", "=", " ", "1", "0", "2",
        "4", " ", "b", "y", "t", "e", "s", "\n">>,
    \* Profile: Default\n
      profile |->
      <<"P", "r", "o", "f", "i", "l", "e", ":", " ", "D", "e", "f", "a", "u",
        "l", "t", "\n">>,
    \* Profile: Peak Performance \n
      profile2 |->
      <<"P", "r", "o", "f", "i", "l", "e", ":", " ", "P", "e", "a", "k", " ",
        "P", "e", "r", "f", "o", "r", "m", "a", "n", "c", "e", " ", "\n">>,
    \*    Test: 1 GiB (x5) [E: 96% (894/932GiB)]\n
      test |->
      <<" ", " ", " ", "T", "e", "s", "t", ":", " ", "1", " ", "G", "i", "B",
        " ", "(", "x", "5", ")", " ", "[", "E", ":", " ", "9", "6", "%", " ",
        "(", "8", "9", "4", "/", "9", "3", "2", "G", "i", "B", ")", "]", "\n">>,
    \*    Mode: [Admin]\n
      mode |->
      <<" ", " ", " ", "M", "o", "d", "e", ":", " ", "[", "A", "d", "m", "i",
        "n", "]", "\n">>,
    \*    Time: Measure 5 sec / Interval 5 sec \n
      time |->
      <<" ", " ", " ", "T", "i", "m", "e", ":", " ", "M", "e", "a", "s", "u",
        "r", "e", " ", "5", " ", "s", "e", "c", " ", "/", " ", "I", "n", "t",
        "e", "r", "v", "a", "l", " ", "5", " ", "s", "e", "c", " ", "\n">>,
    \*    Date: 2021/06/22 17:19:21\n
      date |->
      <<" ", " ", " ", "D", "a", "t", "e", ":", " ", "2", "0", "2", "1", "/",
        "0", "6", "/", "2", "2", " ", "1", "7", ":", "1", "9", ":", "2", "1",
        "\n">>,
    \*      OS: Windows 10  [10.0 Build 19042] (x64)\n
      os |->
      <<" ", " ", " ", " ", " ", "O", "S", ":", " ", "W", "i", "n", "d", "o",
        "w", "s", " ", "1", "0", " ", " ", "[", "1", "0", ".", "0", " ", "B",
        "u", "i", "l", "d", " ", "1", "9", "0", "4", "2", "]", " ", "(", "x",
        "6", "4", ")", "\n">>,
    \* Comment: WD Blue 3D 1TB\n
      comment |->
      <<"C", "o", "m", "m", "e", "n", "t", ":", " ", "W", "D", " ", "B", "l",
        "u", "e", " ", "3", "D", " ", "1", "T", "B", "\n">>,
    \* Comment:   Samsung 840 EVO\t\n
      comment2 |->
      <<"C", "o", "m", "m", "e", "n", "t", ":", " ", " ", " ", "S", "a", "m",
        "s", "u", "n", "g", " ", "8", "4", "0", " ", "E", "V", "O", "\t", "\n">>,
    \*   Sequential 1MiB (Q=  8, T= 1):   531.458 MB/s [    506.8 IOPS] < 15726.77 us>\n
      seq_long |->
      <<" ", " ", "S", "e", "q", "u", "e", "n", "t", "i", "a", "l", " ", "1",
        "M", "i", "B", " ", "(", "Q", "=", " ", " ", "8", ",", " ", "T", "=",
        " ", "1", ")", ":", " ", " ", " ", "5", "3", "1", ".", "4", "5", "8",
        " ", "M", "B", "/", "s", " ", "[", " ", " ", " ", " ", "5", "0", "6",
        ".", "8", " ", "I", "O", "P", "S", "]", " ", "<", " ", "1", "5", "7",
        "2", "6", ".", "7", "7", " ", "u", "s", ">", "\n">>,
    \*   Random 4KiB (Q= 32, T=16):   269.406 MB/s [  65772.9 IOPS] <   470.58 us>\n
      rnd_long |->
      <<" ", " ", "R", "a", "n", "d", "o", "m", " ", "4", "K", "i", "B", " ",
        "(", "Q", "=", " ", "3", "2", ",", " ", "T", "=", "1", "6", ")", ":",
        " ", " ", " ", "2", "6", "9", ".", "4", "0", "6", " ", "M", "B", "/",
        "s", " ", "[", " ", " ", "6", "5", "7", "7", "2", ".", "9", " ", "I",
        "O", "P", "S", "]", " ", "<", " ", " ", " ", "4", "7", "0", ".", "5",
        "8", " ", "u", "s", ">", "\n">>,
    \* Comment: \n
      comment_sp |->
      <<"C", "o", "m", "m", "e", "n", "t", ":", " ", "\n">>,
    \* Comment:   \n
      comment_ws |->
      <<"C", "o", "m", "m", "e", "n", "t", ":", " ", " ", " ", "\n">>,
    \*   SEQ    1MiB (Q=  8, T= 1):   1.2.3 MB/s [    506.8 IOPS] < 15726.77 us>\n
      seq_dots |->
      <<" ", " ", "S", "E", "Q", " ", " ", " ", " ", "1", "M", "i", "B", " ",
        "(", "Q", "=", " ", " ", "8", ",", " ", "T", "=", " ", "1", ")", ":",
        " ", " ", " ", "1", ".", "2", ".", "3", " ", "M", "B", "/", "s", " ",
        "[", " ", " ", " ", " ", "5", "0", "6", ".", "8", " ", "I", "O", "P",
        "S", "]", " ", "<", " ", "1", "5", "7", "2", "6", ".", "7", "7", " ",
        "u", "s", ">", "\n">>,
    \*   RND    4KiB (Q= 32, T=16):   269.406 MB/s [  65772.9 IOPS] <   . us>\n
      rnd_dot |->
      <<" ", " ", "R", "N", "D", " ", " ", " ", " ", "4", "K", "i", "B", " ",
        "(", "Q", "=", " ", "3", "2", ",", " ", "T", "=", "1", "6", ")", ":",
        " ", " ", " ", "2", "6", "9", ".", "4", "0", "6", " ", "M", "B", "/",
        "s", " ", "[", " ", " ", "6", "5", "7", "7", "2", ".", "9", " ", "I",
        "O", "P", "S", "]", " ", "<", " ", " ", " ", ".", " ", "u", "s", ">",
        "\n">>,
    \*   SEQ    1MiB (Q=  8, T= 1):   531.458 MB/s [    506.8 IOPS] < 15726.77 us>
      seq_nonl |->
      <<" ", " ", "S", "E", "Q", " ", " ", " ", " ", "1", "M", "i", "B", " ",
        "(", "Q", "=", " ", " ", "8", ",", " ", "T", "=", " ", "1", ")", ":",
        " ", " ", " ", "5", "3", "1", ".", "4", "5", "8", " ", "M", "B", "/",
        "s", " ", "[", " ", " ", " ", " ", "5", "0", "6", ".", "8", " ", "I",
        "O", "P", "S", "]", " ", "<", " ", "1", "5", "7", "2", "6", ".", "7",
        "7", " ", "u", "s", ">">>,
    \* [Write]  SEQ    1MiB (Q=  8, T= 1):   531.458 MB/s [    506.8 IOPS] < 15726.77 us>\n
      both |->
      <<"[", "W", "r", "i", "t", "e", "]", " ", " ", "S", "E", "Q", " ", " ",
        " ", " ", "1", "M", "i", "B", " ", "(", "Q", "=", " ", " ", "8", ",",
        " ", "T", "=", " ", "1", ")", ":", " ", " ", " ", "5", "3", "1", ".",
        "4", "5", "8", " ", "M", "B", "/", "s", " ", "[", " ", " ", " ", " ",
        "5", "0", "6", ".", "8", " ", "I", "O", "P", "S", "]", " ", "<", " ",
        "1", "5", "7", "2", "6", ".", "7", "7", " ", "u", "s", ">", "\n">>,
    \* Comment: Test: x\n
      comment_test |->
      <<"C", "o", "m", "m", "e", "n", "t", ":", " ", "T", "e", "s", "t", ":",
        " ", "x", "\n">>,
    \* Comment: [Read] run\n
      comment_read |->
      <<"C", "o", "m", "m", "e", "n", "t", ":", " ", "[", "R", "e", "a", "d",
        "]", " ", "r", "u", "n", "\n">>,
    \* --- [Mix] ---\n
      banner_mix |->
      <<"-", "-", "-", " ", "[", "M", "i", "x", "]", " ", "-", "-", "-", "\n">> ]


LineIds == DOMAIN Text

\* __parse_line on every modelled line.
Classified == [id \in LineIds |-> parse_line(Text[id])]

-----------------------------------------------------------------------------
(* BenchmarkResult, TestResult and the table of parse_df *)

\* BenchmarkResult.__init__
BenchmarkResult ==
    [ test |-> None, date |-> None, os |-> None, profile |-> None,
      time |-> None, mode |-> None, comment |-> None,
      write_results |-> <<>>, read_results |-> <<>>, mix_results |-> <<>> ]

\* A faulty variant of FloatsOk: only the rate is looked at.
FloatsOkRateOnly(g) == FloatOk(g.rate)

\* Whether the three float() calls on the groups of a test_res match succeed.
FloatsOk(g) == FloatOk(g.rate) /\ FloatOk(g.iops) /\ FloatOk(g.us)

\* A faulty variant of TestResult: queue depth and thread count read from
\* each other's group.
TestResultSwapped(g) ==
    [ test_type       |-> Str(Strip(g.type)),
      block_size      |-> FloatOf(g.blocksize),
      unit_block_size |-> Str(Strip(g.ublocksize)),
      queues          |-> IntOf(g.threads),
      threads         |-> IntOf(g.queue),
      rate            |-> FloatOf(g.rate),
      unit_rate       |-> Str(Strip(g.urate)),
      iops            |-> FloatOf(g.iops),
      unit_iops       |-> Str(Strip(g.uiops)),
      latency         |-> FloatOf(g.us),
      unit_latency    |-> Str(Strip(g.uus)) ]

\* The TestResult parse builds from the groups of a test_res match.
TestResult(g) ==
    [ test_type       |-> Str(Strip(g.type)),
      block_size      |-> FloatOf(g.blocksize),
      unit_block_size |-> Str(Strip(g.ublocksize)),
      queues          |-> IntOf(g.queue),
      threads         |-> IntOf(g.threads),
      rate            |-> FloatOf(g.rate),
      unit_rate       |-> Str(Strip(g.urate)),
      iops            |-> FloatOf(g.iops),
      unit_iops       |-> Str(Strip(g.uiops)),
      latency         |-> FloatOf(g.us),
      unit_latency    |-> Str(Strip(g.uus)) ]

\* The columns parse_df creates the table with.
DfColumns ==
    << "date", "test", "time", "os", "mode", "profile", "comment",
       "read_write_mix", "type", "blocksize", "unit_blocksize", "queues",
       "threads", "rate", "unit_rate", "iops", "unit_iops", "latency",
       "unit_latency" >>

\* pd.DataFrame(columns=[...]): no rows.
EmptyDf == [columns |-> DfColumns, rows |-> <<>>]

\* The one-row table parse_df builds for TestResult r of result res, kind
\* being "read", "write" or "mix".
DfRow(kind, res, r) ==
    [ read_write_mix |-> kind,
      date |-> res.date, test |-> res.test, time |-> res.time, os |-> res.os,
      mode |-> res.mode, profile |-> res.profile, comment |-> res.comment,
      type |-> r.test_type, blocksize |-> r.block_size,
      unit_blocksize |-> r.unit_block_size, queues |-> r.queues,
      threads |-> r.threads, rate |-> r.rate, unit_rate |-> r.unit_rate,
      iops |-> r.iops, unit_iops |-> r.unit_iops, latency |-> r.latency,
      unit_latency |-> r.unit_latency ]

\* The keys of the dict a row is built from, in the order it lists them.
RowColumns ==
    << "read_write_mix", "date", "test", "time", "os", "mode", "profile",
       "comment", "type", "blocksize", "unit_blocksize", "queues", "threads",
       "rate", "unit_rate", "iops", "unit_iops", "latency", "unit_latency" >>

\* pd.concat([d, one-row table], ignore_index=True): the columns of d, then
\* the row's columns d lacks; the rows of d, then the row.
Concat(d, row) ==
    [ columns |-> d.columns \o
                  SelectSeq(RowColumns,
                            LAMBDA c : \A i \in 1..Len(d.columns) : d.columns[i] # c),
      rows    |-> Append(d.rows, row) ]

\* One of the three loops of parse_df: a row per TestResult of rs, in order.
RECURSIVE ConcatAll(_, _, _, _)
ConcatAll(d, kind, res, rs) ==
    IF rs = <<>> THEN d
    ELSE ConcatAll(Concat(d, DfRow(kind, res, Head(rs))), kind, res, Tail(rs))

\* A faulty variant of Flatten: the write loop runs before the read loop.
FlattenWriteFirst(res) ==
    ConcatAll(ConcatAll(ConcatAll(EmptyDf, "write", res, res.write_results),
                        "read", res, res.read_results),
              "mix", res, res.mix_results)

\* The table parse_df returns for result res: the read loop, the write loop,
\* the mix loop.
Flatten(res) ==
    ConcatAll(ConcatAll(ConcatAll(EmptyDf, "read", res, res.read_results),
                        "write", res, res.write_results),
              "mix", res, res.mix_results)

\* df[col] as the tests index the returned table: the values of column col,
\* row by row; a KeyError when the table has no column of that name.
GetItem(df, col) ==
    IF \E k \in 1..Len(df.columns) : df.columns[k] = col
    THEN [ok |-> TRUE, values |-> [i \in 1..Len(df.rows) |-> df.rows[i][col]]]
    ELSE [ok |-> FALSE, values |-> <<>>]

-----------------------------------------------------------------------------
(* The state of one call *)

VARIABLES
    pc,             \* "loop": in the while loop of parse; "returned": parse has
                    \* returned its result; "df_returned": parse_df, the
                    \* caller, has returned its table; "failed": an exception
                    \* has left the call
    consumed,       \* the names of the lines readline() has returned so far
    read_or_write,  \* parse's local read_or_write
    result,         \* parse's local result
    file_open,      \* whether the file object of the with statement is open
    ret,            \* the value last returned (by parse, then by parse_df),
                    \* None before
    err,            \* the exception that left the call, None when there is none
    peer            \* a second call of parse, on a file of its own, that runs
                    \* at the same time: its pc, consumed, read_or_write,
                    \* result, file_open, ret and err, as a record

\* The variables of the first call.
call == <<pc, consumed, read_or_write, result, file_open, ret, err>>

vars == <<pc, consumed, read_or_write, result, file_open, ret, err, peer>>

\* Bounds of the model: the number of lines an input holds.
MaxLines == 5

\* The locals of a call as the while loop of parse is entered, as a record.
NewFrame ==
    [ pc |-> "loop", consumed |-> <<>>, read_or_write |-> None,
      result |-> BenchmarkResult, file_open |-> TRUE, ret |-> None,
      err |-> None ]

\* The state as the while loop of parse is entered: result constructed, the
\* file open, no line read, read_or_write None; the same for the second call.
Init ==
    /\ pc = "loop"
    /\ consumed = <<>>
    /\ read_or_write = None
    /\ result = BenchmarkResult
    /\ file_open = TRUE
    /\ ret = None
    /\ err = None
    /\ peer = NewFrame

\* A faulty variant of Raise: the file is opened without the with statement,
\* so an exception leaves it open.
RaiseLeavingOpen(e) ==
    /\ pc' = "failed"
    /\ err' = Some(e)
    /\ UNCHANGED <<read_or_write, result, ret, file_open>>

\* An exception raised inside the with block: the file is closed on the way
\* out, the exception leaves parse (and parse_df, which does not catch it),
\* and nothing is returned.
Raise(e) ==
    /\ pc' = "failed"
    /\ err' = Some(e)
    /\ file_open' = FALSE
    /\ UNCHANGED <<read_or_write, result, ret>>

\* readline() returns a line without a newline only at the end of the file.
AtLineStart ==
    IF consumed = <<>> THEN TRUE
    ELSE LET last == Text[consumed[Len(consumed)]] IN last[Len(last)] = "\n"

\* A faulty variant of SetMetadata: a field that is already set is kept.
SetMetadataFirstWins(res, key, g) ==
    CASE key = Some("profile") /\ res.profile = None ->
             [res EXCEPT !.profile = Some(Str(Strip(g.profile)))]
      [] key = Some("test") /\ res.test = None ->
             [res EXCEPT !.test = Some(Str(Strip(g.test)))]
      [] key = Some("os") /\ res.os = None ->
             [res EXCEPT !.os = Some(Str(Strip(g.os)))]
      [] key = Some("date") /\ res.date = None ->
             [res EXCEPT !.date = Some(Str(Strip(g.date)))]
      [] key = Some("time") /\ res.time = None ->
             [res EXCEPT !.time = Some(Str(Strip(g.time)))]
      [] key = Some("mode") /\ res.mode = None ->
             [res EXCEPT !.mode = Some(Str(Strip(g.mode)))]
      [] key = Some("comment") /\ res.comment = None ->
             [res EXCEPT !.comment = Some(Str(Strip(g.comment)))]
      [] OTHER -> res

\* A faulty variant of SetMetadata: a line no recogniser matched falls
\* through to the last assignment with an empty text.
SetMetadataFallThrough(res, key, g) ==
    CASE key = Some("profile") -> [res EXCEPT !.profile = Some(Str(Strip(g.profile)))]
      [] key = Some("test")    -> [res EXCEPT !.test = Some(Str(Strip(g.test)))]
      [] key = Some("os")      -> [res EXCEPT !.os = Some(Str(Strip(g.os)))]
      [] key = Some("date")    -> [res EXCEPT !.date = Some(Str(Strip(g.date)))]
      [] key = Some("time")    -> [res EXCEPT !.time = Some(Str(Strip(g.time)))]
      [] key = Some("mode")    -> [res EXCEPT !.mode = Some(Str(Strip(g.mode)))]
      [] key = Some("comment") -> [res EXCEPT !.comment = Some(Str(Strip(g.comment)))]
      [] OTHER -> [res EXCEPT !.comment = Some("")]

\* The metadata assignment of the else branch, for recogniser key and the
\* groups g of its match.
SetMetadata(res, key, g) ==
    CASE key = Some("profile") -> [res EXCEPT !.profile = Some(Str(Strip(g.profile)))]
      [] key = Some("test")    -> [res EXCEPT !.test = Some(Str(Strip(g.test)))]
      [] key = Some("os")      -> [res EXCEPT !.os = Some(Str(Strip(g.os)))]
      [] key = Some("date")    -> [res EXCEPT !.date = Some(Str(Strip(g.date)))]
      [] key = Some("time")    -> [res EXCEPT !.time = Some(Str(Strip(g.time)))]
      [] key = Some("mode")    -> [res EXCEPT !.mode = Some(Str(Strip(g.mode)))]
      [] key = Some("comment") -> [res EXCEPT !.comment = Some(Str(Strip(g.comment)))]
      [] OTHER -> res

\* A faulty variant of Classify: the mix section is taken for write.
ClassifyMixAsWrite(s) ==
    IF s = Some("write") \/ s = Some("mix") THEN Some("write_results")
    ELSE IF s = Some("read") THEN Some("read_results")
    ELSE None

\* A faulty variant of Classify: without a section a TestResult counts as a
\* read result instead of raising.
ClassifyDefaultRead(s) ==
    IF s = Some("write") THEN Some("write_results")
    ELSE IF s = Some("mix") THEN Some("mix_results")
    ELSE Some("read_results")

\* The sequence of result a TestResult is appended to under section s; None
\* when s names none, where parse raises.
Classify(s) ==
    IF s = Some("write") THEN Some("write_results")
    ELSE IF s = Some("read") THEN Some("read_results")
    ELSE IF s = Some("mix") THEN Some("mix_results")
    ELSE None

\* A faulty variant of AddResult: the TestResult is put in front.
AddResultFront(rs, tr) == <<tr>> \o rs

\* result.xxx_results += [test_result]
AddResult(rs, tr) == rs \o <<tr>>

\* The read_or_write branch: the captured token, lower-cased.
SectionOf(g) == Some(Str(Lower(g.read_or_write)))

\* A faulty variant of ResetSection: the section is kept.
ResetSectionKeep(s) == s

\* The section after a line that is neither a section header nor a test
\* result: the else branch resets it.
ResetSection(s) == None

\* One iteration of the while loop, readline() having returned line id, of an
\* input of at most max lines: the line is classified and handled, and the
\* next line is read.
LoopBody(id, max) ==
    /\ pc = "loop"
    /\ UNCHANGED peer
    /\ Len(consumed) < max
    /\ AtLineStart
    /\ consumed' = Append(consumed, id)
    /\ LET key == Classified[id].key
           g   == Classified[id].match.groups
       IN  IF key = Some("read_or_write")
           THEN /\ read_or_write' = SectionOf(g)
                /\ UNCHANGED <<pc, result, file_open, ret, err>>
           ELSE IF key = Some("test_res")
           THEN IF ~FloatsOk(g) THEN Raise("ValueError")
                ELSE IF Classify(read_or_write) = None THEN Raise("Exception")
                ELSE /\ result' =
                          [result EXCEPT ![Classify(read_or_write)[1]] =
                                             AddResult(@, TestResult(g))]
                     /\ UNCHANGED <<pc, read_or_write, file_open, ret, err>>
           ELSE /\ read_or_write' = ResetSection(read_or_write)
                /\ result' = SetMetadata(result, key, g)
                /\ UNCHANGED <<pc, file_open, ret, err>>

\* readline() returns "": the loop ends, the with block closes the file and
\* parse returns result.
Eof ==
    /\ pc = "loop"
    /\ pc' = "returned"
    /\ file_open' = FALSE
    /\ ret' = Some(result)
    /\ UNCHANGED <<consumed, read_or_write, result, err, peer>>

\* readline() raises UnicodeDecodeError: the bytes of the next line are not
\* text in the chosen encoding.
DecodeError ==
    /\ pc = "loop"
    /\ AtLineStart
    /\ Raise("UnicodeDecodeError")
    /\ UNCHANGED <<consumed, peer>>

\* parse_df, when it is the caller, after res = parse(...) has returned: the
\* three loops over res, and the table is returned.
ParseDf ==
    /\ pc = "returned"
    /\ pc' = "df_returned"
    /\ ret' = Some(Flatten(ret[1]))
    /\ UNCHANGED <<consumed, read_or_write, result, file_open, err, peer>>

-----------------------------------------------------------------------------
(* A second call of parse running at the same time, on its own locals *)

\* Raise on the locals fr of a call.
Raised(fr, e) == [fr EXCEPT !.pc = "failed", !.err = Some(e), !.file_open = FALSE]

\* Whether the last line the call with locals fr read ends with a newline.
FrameAtLineStart(fr) ==
    IF fr.consumed = <<>> THEN TRUE
    ELSE LET last == Text[fr.consumed[Len(fr.consumed)]]
         IN  last[Len(last)] = "\n"

\* The body of the while loop on the locals fr of a call, for line id: the
\* locals after it.
FrameAfterLine(fr, id) ==
    LET key == Classified[id].key
        g   == Classified[id].match.groups
        fr1 == [fr EXCEPT !.consumed = Append(@, id)]
    IN  IF key = Some("read_or_write")
        THEN [fr1 EXCEPT !.read_or_write = SectionOf(g)]
        ELSE IF key = Some("test_res")
        THEN IF ~FloatsOk(g) THEN Raised(fr1, "ValueError")
             ELSE IF Classify(fr.read_or_write) = None THEN Raised(fr1, "Exception")
             ELSE [fr1 EXCEPT !.result[Classify(fr.read_or_write)[1]] =
                                  AddResult(@, TestResult(g))]
        ELSE [fr1 EXCEPT !.read_or_write = ResetSection(@),
                         !.result = SetMetadata(@, key, g)]

\* A faulty variant of PeerSection: read_or_write is a module-level name, so
\* the second call reads what the first call has stored.
PeerSectionShared == read_or_write

\* The read_or_write the second call reads: its own local.
PeerSection == peer.read_or_write

\* The second call runs the loop body for its next line.
PeerLoopBody(id, max) ==
    /\ peer.pc = "loop"
    /\ Len(peer.consumed) < max
    /\ FrameAtLineStart(peer)
    /\ peer' = FrameAfterLine([peer EXCEPT !.read_or_write = PeerSection], id)
    /\ UNCHANGED call

\* The second call meets the end of its file and returns its result.
PeerEof ==
    /\ peer.pc = "loop"
    /\ peer' = [peer EXCEPT !.pc = "returned", !.file_open = FALSE,
                            !.ret = Some(peer.result)]
    /\ UNCHANGED call

\* readline() of the second call raises UnicodeDecodeError.
PeerDecodeError ==
    /\ peer.pc = "loop"
    /\ FrameAtLineStart(peer)
    /\ peer' = Raised(peer, "UnicodeDecodeError")
    /\ UNCHANGED call

-----------------------------------------------------------------------------
(* Specifications: the same program over different sets of input lines *)

\* Section headers, test results, unrecognised lines and a metadata line.
Corpus ==
    {"hdr_read", "hdr_write", "hdr_mix", "seq", "rnd", "blank", "heading", "profile"}

Next ==
    \/ \E id \in Corpus : LoopBody(id, MaxLines)
    \/ Eof
    \/ DecodeError
    \/ ParseDf

Spec == Init /\ [][Next]_vars

\* Read and Write sections only, in longer inputs.
OrderCorpus == {"hdr_read", "hdr_write", "seq", "rnd"}

MaxOrderLines == 6

NextOrder ==
    \/ \E id \in OrderCorpus : LoopBody(id, MaxOrderLines)
    \/ Eof
    \/ DecodeError
    \/ ParseDf

SpecOrder == Init /\ [][NextOrder]_vars

\* The seven metadata labels, two of them with a second value, around a
\* section with a test result.
MetaCorpus ==
    {"hdr_read", "seq", "profile", "profile2", "test", "mode", "time", "date",
     "os", "comment", "comment2"}

MaxMetaLines == 3

NextMeta ==
    \/ \E id \in MetaCorpus : LoopBody(id, MaxMetaLines)
    \/ Eof
    \/ DecodeError
    \/ ParseDf

SpecMeta == Init /\ [][NextMeta]_vars

\* Test results whose numbers are written in different ways.
NumCorpus ==
    {"hdr_read", "hdr_mix", "seq", "rnd", "seq_comma", "seq_dots", "rnd_dot"}

MaxNumLines == 4

NextNum ==
    \/ \E id \in NumCorpus : LoopBody(id, MaxNumLines)
    \/ Eof
    \/ DecodeError
    \/ ParseDf

SpecNum == Init /\ [][NextNum]_vars

\* Long and short pattern tokens, and Comment lines with and without text.
FormCorpus ==
    {"hdr_read", "seq", "seq_long", "rnd_long", "comment", "comment_sp",
     "comment_ws"}

MaxFormLines == 3

NextForm ==
    \/ \E id \in FormCorpus : LoopBody(id, MaxFormLines)
    \/ Eof
    \/ DecodeError
    \/ ParseDf

SpecForm == Init /\ [][NextForm]_vars

\* Two calls of parse at the same time, each on a short input of its own.
PairCorpus == {"hdr_read", "hdr_write", "seq", "profile"}

MaxPairLines == 2

NextPair ==
    \/ \E id \in PairCorpus : LoopBody(id, MaxPairLines)
    \/ Eof
    \/ DecodeError
    \/ \E id \in PairCorpus : PeerLoopBody(id, MaxPairLines)
    \/ PeerEof
    \/ PeerDecodeError

SpecPair == Init /\ [][NextPair]_vars

\* Lines that more than one recogniser matches, and a test result line that
\* ends the file without a newline.
EdgeCorpus ==
    {"hdr_read", "seq", "seq_nonl", "both", "comment_test", "comment_read",
     "banner_mix", "profile"}

MaxEdgeLines == 3

NextEdge ==
    \/ \E id \in EdgeCorpus : LoopBody(id, MaxEdgeLines)
    \/ Eof
    \/ DecodeError
    \/ ParseDf

SpecEdge == Init /\ [][NextEdge]_vars

-----------------------------------------------------------------------------
(* What the modelled lines say, written down by hand as a test would: the   *)
(* properties below compare what the program computes with these.            *)

\* The section each header line names.
HeaderName == [hdr_read |-> "read", hdr_write |-> "write", hdr_mix |-> "mix"]

\* The sequence of the result that belongs to each section.
FieldOf == [read |-> "read_results", write |-> "write_results", mix |-> "mix_results"]

Sections == {"read", "write", "mix"}

\* The values the well-formed test result lines carry.
Literal ==
    [ seq |-> [ test_type |-> "SEQ",
                block_size |-> [num |-> 1, scale |-> 0], unit_block_size |-> "MiB",
                queues |-> 8, threads |-> 1,
                rate |-> [num |-> 531458, scale |-> 3], unit_rate |-> "MB/s",
                iops |-> [num |-> 5068, scale |-> 1], unit_iops |-> "IOPS",
                latency |-> [num |-> 1572677, scale |-> 2], unit_latency |-> "us" ],
      rnd |-> [ test_type |-> "RND",
                block_size |-> [num |-> 4, scale |-> 0], unit_block_size |-> "KiB",
                queues |-> 32, threads |-> 16,
                rate |-> [num |-> 269406, scale |-> 3], unit_rate |-> "MB/s",
                iops |-> [num |-> 657729, scale |-> 1], unit_iops |-> "IOPS",
                latency |-> [num |-> 47058, scale |-> 2], unit_latency |-> "us" ] ]

\* The label of each metadata line and the text that follows it, trimmed.
MetaLabel ==
    [ profile |-> "profile", profile2 |-> "profile", test |-> "test",
      mode |-> "mode", time |-> "time", date |-> "date", os |-> "os",
      comment |-> "comment", comment2 |-> "comment" ]

MetaValue ==
    [ profile  |-> "Default",
      profile2 |-> "Peak Performance",
      test     |-> "1 GiB (x5) [E: 96% (894/932GiB)]",
      mode     |-> "[Admin]",
      time     |-> "Measure 5 sec / Interval 5 sec",
      date     |-> "2021/06/22 17:19:21",
      os       |-> "Windows 10  [10.0 Build 19042] (x64)",
      comment  |-> "WD Blue 3D 1TB",
      comment2 |-> "Samsung 840 EVO" ]

MetaFields == {"profile", "test", "mode", "time", "date", "os", "comment"}

IsHeader(id) == id \in DOMAIN HeaderName

IsMeasurement(id) == id \in DOMAIN Literal

IsMetadata(id) == id \in DOMAIN MetaLabel

\* Blank line, banner, heading.
IsUnmatched(id) == id \in {"blank", "banner", "heading"}

\* The section named by the most recent header line before line i of cs, None
\* when no header line precedes it.
RECURSIVE LastHeaderBefore(_, _)
LastHeaderBefore(cs, i) ==
    IF i <= 1 THEN None
    ELSE IF IsHeader(cs[i - 1]) THEN Some(HeaderName[cs[i - 1]])
    ELSE LastHeaderBefore(cs, i - 1)

\* The values of the test result lines among the first n lines of cs whose
\* most recent header names section kind, in the order of the lines.
RECURSIVE Attributed(_, _, _)
Attributed(cs, kind, n) ==
    IF n = 0 THEN <<>>
    ELSE Attributed(cs, kind, n - 1) \o
         (IF IsMeasurement(cs[n]) /\ LastHeaderBefore(cs, n) = Some(kind)
          THEN <<Literal[cs[n]]>> ELSE <<>>)

\* How often x occurs in sequence q.
Count(q, x) == Cardinality({i \in 1..Len(q) : q[i] = x})

-----------------------------------------------------------------------------
(* Properties *)

\* C1: as long as parse has not failed, every TestResult created is in
\* exactly one of read_results, write_results and mix_results, the one named
\* by the most recent section header before its line: each sequence holds
\* each test result as often as lines with it follow a header of its section,
\* also when several test result lines follow one header.
C1_AttributedToLastHeader ==
    pc # "failed" =>
        \A kind \in Sections : \A id \in DOMAIN Literal :
            Count(result[FieldOf[kind]], Literal[id]) =
                Cardinality({i \in 1..Len(consumed) :
                                /\ consumed[i] = id
                                /\ LastHeaderBefore(consumed, i) = Some(kind)})

\* Two test result lines that follow one [Mix] header are both in
\* mix_results when parse returns.
C1_Witness ==
    /\ pc = "returned"
    /\ \E i \in 1..Len(consumed) :
          /\ i + 2 <= Len(consumed)
          /\ consumed[i] = "hdr_mix"
          /\ IsMeasurement(consumed[i + 1])
          /\ IsMeasurement(consumed[i + 2])
    /\ Len(result.mix_results) >= 2

\* C2: a test result line met while read_or_write is None makes parse fail
\* with the exception of line 292, and nothing is returned: neither then nor
\* later, the failed call taking no further step.
C2_NoSectionFails ==
    [][ /\ ( /\ pc = "loop"
             /\ read_or_write = None
             /\ consumed' # consumed
             /\ IsMeasurement(consumed'[Len(consumed')]) )
           => (pc' = "failed" /\ err' = Some("Exception") /\ ret' = None)
        /\ pc = "failed" => (pc' = "failed" /\ ret' = None) ]_vars

\* parse has failed on a test result line after it had built a part of the
\* result, and has returned nothing.
C2_Witness ==
    /\ pc = "failed"
    /\ err = Some("Exception")
    /\ IsMeasurement(consumed[Len(consumed)])
    /\ result.read_results # <<>>
    /\ ret = None

\* Lines 1..j of cs end with a header line followed by unmatched lines only.
RECURSIVE HeaderThenUnmatched(_, _)
HeaderThenUnmatched(cs, j) ==
    /\ j >= 1
    /\ \/ IsHeader(cs[j])
       \/ IsUnmatched(cs[j]) /\ HeaderThenUnmatched(cs, j - 1)

\* C3: after a section header and any number of unmatched lines,
\* a test result line is attributed to the header's sequence and no error is
\* raised.
C3_UnmatchedKeepsSection ==
    LET n == Len(consumed) IN
    (n >= 2 /\ IsMeasurement(consumed[n]) /\ HeaderThenUnmatched(consumed, n - 1))
        => /\ err # Some("Exception")
           /\ LET q == result[FieldOf[LastHeaderBefore(consumed, n)[1]]]
              IN  q # <<>> /\ q[Len(q)] = Literal[consumed[n]]

\* C4: a metadata line, whichever of the seven labels it carries, resets the
\* active section to None, so after a header and a metadata line a test result
\* line makes parse fail with the exception of line 292.
C4_MetadataResetsSection ==
    LET n == Len(consumed) IN
    /\ (n >= 1 /\ IsMetadata(consumed[n])) => read_or_write = None
    /\ (n >= 2 /\ IsMeasurement(consumed[n]) /\ IsMetadata(consumed[n - 1]))
           => (pc = "failed" /\ err = Some("Exception") /\ ret = None)

\* A header, a Comment: line, a test result line: parse has failed.
C4_Witness ==
    /\ Len(consumed) = 3
    /\ IsHeader(consumed[1])
    /\ IsMetadata(consumed[2]) /\ MetaLabel[consumed[2]] = "comment"
    /\ IsMeasurement(consumed[3])
    /\ pc = "failed"

\* C5: when parse returns, read_results holds the N test results of the lines
\* in Read sections and write_results the M of the lines in Write sections,
\* each in the order of the lines, however the sections are interleaved.
C5_OrderPreserved ==
    pc = "returned" =>
        LET n  == Len(consumed)
            nr == Cardinality({i \in 1..n : /\ IsMeasurement(consumed[i])
                                            /\ LastHeaderBefore(consumed, i) = Some("read")})
            nw == Cardinality({i \in 1..n : /\ IsMeasurement(consumed[i])
                                            /\ LastHeaderBefore(consumed, i) = Some("write")})
        IN  /\ Len(ret[1].read_results) = nr
            /\ Len(ret[1].write_results) = nw
            /\ ret[1].read_results = Attributed(consumed, "read", n)
            /\ ret[1].write_results = Attributed(consumed, "write", n)

\* parse has returned from an input where a Write section lies between two
\* Read sections, each with a test result line, the two read ones different.
C5_Witness ==
    /\ pc = "returned"
    /\ \E i, j, k \in 1..Len(consumed) :
          /\ i < j /\ j < k
          /\ IsMeasurement(consumed[i]) /\ LastHeaderBefore(consumed, i) = Some("read")
          /\ IsMeasurement(consumed[j]) /\ LastHeaderBefore(consumed, j) = Some("write")
          /\ IsMeasurement(consumed[k]) /\ LastHeaderBefore(consumed, k) = Some("read")
          /\ consumed[i] # consumed[k]
    /\ Len(ret[1].read_results) = 2

\* C6, as stated: a test result line whose rate is written "1,234.56", under
\* an active section, does not fail and yields the rate 1234.56.
C6_CommaRateParses ==
    LET n == Len(consumed) IN
    (n >= 2 /\ consumed[n] = "seq_comma" /\ IsHeader(consumed[n - 1]))
        => /\ err # Some("ValueError")
           /\ LET q == result[FieldOf[HeaderName[consumed[n - 1]]]]
              IN  q # <<>> /\ q[Len(q)].rate = [num |-> 123456, scale |-> 2]

\* C7: the TestResult appended for a test result line under an active section
\* carries the values of that line, each in its own field.
C7_RoundTrip ==
    LET n == Len(consumed) IN
    (n >= 1 /\ IsMeasurement(consumed[n]) /\ read_or_write # None)
        => LET q == result[FieldOf[read_or_write[1]]]
           IN  q # <<>> /\ q[Len(q)] = Literal[consumed[n]]

\* The line with queue depth 32 and 16 threads has been appended under
\* [Write].
C7_Witness ==
    /\ consumed # <<>>
    /\ consumed[Len(consumed)] = "rnd"
    /\ read_or_write = Some("write")
    /\ result.write_results # <<>>
    /\ result.write_results[Len(result.write_results)].queues = 32
    /\ result.write_results[Len(result.write_results)].threads = 16

\* C8: an input none of whose lines is recognised, the empty input included,
\* is parsed without an error of parse's own, and the result returned has the
\* seven metadata fields None and the three sequences empty.
C8_NothingRecognised ==
    (\A i \in 1..Len(consumed) : IsUnmatched(consumed[i]))
        => /\ err \in {None, Some("UnicodeDecodeError")}
           /\ pc = "returned" =>
                 ret = Some([ test |-> None, date |-> None, os |-> None,
                              profile |-> None, time |-> None, mode |-> None,
                              comment |-> None, write_results |-> <<>>,
                              read_results |-> <<>>, mix_results |-> <<>> ])

\* parse has returned from an input of several lines, all unrecognised.
C8_Witness ==
    /\ pc = "returned"
    /\ Len(consumed) >= 2
    /\ \A i \in 1..Len(consumed) : IsUnmatched(consumed[i])
    /\ \E i, j \in 1..Len(consumed) : consumed[i] # consumed[j]

\* The text of the last line among the first n of cs that carries label f,
\* None when there is none.
RECURSIVE LastValue(_, _, _)
LastValue(cs, f, n) ==
    IF n = 0 THEN None
    ELSE IF IsMetadata(cs[n]) /\ MetaLabel[cs[n]] = f THEN Some(MetaValue[cs[n]])
    ELSE LastValue(cs, f, n - 1)

\* C9: as long as parse has not failed, each metadata field is the trimmed
\* text of the last line read that carries its label, None when no line
\* does; the three sequences are what the test result lines alone make
\* them; and parse returns this result.
C9_LastWriteWins ==
    pc # "failed" =>
        /\ \A f \in MetaFields : result[f] = LastValue(consumed, f, Len(consumed))
        /\ \A kind \in Sections :
              result[FieldOf[kind]] = Attributed(consumed, kind, Len(consumed))
        /\ pc = "returned" => ret = Some(result)

\* Two Profile: lines have been read, the first value replaced by the second,
\* with another field set in between.
C9_Witness ==
    /\ pc = "returned"
    /\ Len(consumed) = 3
    /\ consumed[1] = "profile"
    /\ IsMetadata(consumed[2]) /\ MetaLabel[consumed[2]] # "profile"
    /\ consumed[3] = "profile2"
    /\ ret[1].profile = Some("Peak Performance")
    /\ ret[1][MetaLabel[consumed[2]]] # None

\* The fields of a TestResult as the columns of a row name them.
RowOf(r) ==
    [ type |-> r.test_type, blocksize |-> r.block_size,
      unit_blocksize |-> r.unit_block_size, queues |-> r.queues,
      threads |-> r.threads, rate |-> r.rate, unit_rate |-> r.unit_rate,
      iops |-> r.iops, unit_iops |-> r.unit_iops, latency |-> r.latency,
      unit_latency |-> r.unit_latency ]

\* Row w of a table is the row of TestResult r of section kind in result res.
RowIs(w, kind, res, r) ==
    /\ w.read_write_mix = kind
    /\ \A f \in MetaFields : w[f] = res[f]
    /\ \A c \in DOMAIN RowOf(r) : w[c] = RowOf(r)[c]

\* C10: the table parse_df returns has one row per TestResult of the parsed
\* result: the rows of read_results in order, then those of write_results,
\* then those of mix_results, each with the seven metadata values of the run
\* and with read_write_mix naming the sequence it comes from.
C10_OneRowPerMeasurement ==
    pc = "df_returned" =>
        LET rows == ret[1].rows
            nr   == Len(result.read_results)
            nw   == Len(result.write_results)
            nm   == Len(result.mix_results)
        IN  /\ Len(rows) = nr + nw + nm
            /\ \A i \in 1..nr : RowIs(rows[i], "read", result, result.read_results[i])
            /\ \A i \in 1..nw :
                  RowIs(rows[nr + i], "write", result, result.write_results[i])
            /\ \A i \in 1..nm :
                  RowIs(rows[nr + nw + i], "mix", result, result.mix_results[i])

\* parse_df has returned a table for a run with a profile and with test
\* results in a Write section that comes before a Read section.
C10_Witness ==
    /\ pc = "df_returned"
    /\ result.profile = Some("Default")
    /\ result.read_results # <<>>
    /\ result.write_results # <<>>
    /\ \E i, j \in 1..Len(consumed) :
          i < j /\ consumed[i] = "hdr_write" /\ consumed[j] = "hdr_read"
    /\ Len(ret[1].rows) = 2


\* C11: the table parse_df returns can be indexed by the column read_write,
\* and for a report with Read and Write sections only every value of that
\* column is "read" or "write".
C11_ReadWriteColumn ==
    (/\ pc = "df_returned"
     /\ result.read_results # <<>>
     /\ result.write_results # <<>>
     /\ result.mix_results = <<>>) =>
        LET col == GetItem(ret[1], "read_write")
        IN  /\ col.ok
            /\ \A i \in 1..Len(col.values) : col.values[i] \in {"read", "write"}


\* The pattern kind each test result line of the long-and-short corpus
\* names, as the short token spells it.
KindOf == [seq |-> "SEQ", seq_long |-> "SEQ", rnd_long |-> "RND"]

\* C12: the pattern kind of a test result takes one of two values, and the
\* long token names the same kind as the short one: a "Sequential" line
\* yields the kind a "SEQ" line yields, a "Random" line that of a "RND" line.
C12_LongTokenSameKind ==
    pc # "failed" =>
        LET lines == SelectSeq(consumed, LAMBDA id : id \in DOMAIN KindOf)
            rs    == result.read_results
        IN  \A k \in 1..Len(rs) :
               /\ rs[k].test_type \in {"SEQ", "RND"}
               /\ k <= Len(lines) => rs[k].test_type = KindOf[lines[k]]

\* The lines of the corpus that carry comment text.
HasCommentText(id) == id \in {"comment", "comment2"}

\* C13: when the report has no comment text (no Comment: line, or a Comment:
\* label followed by whitespace only), the comment of the result is None,
\* never the empty string.
C13_NoCommentIsNone ==
    (\A i \in 1..Len(consumed) : ~HasCommentText(consumed[i])) =>
        result.comment = None


\* C14: the file is released on every way out of parse: once parse has
\* returned or has failed (attribution error, number conversion error,
\* decoding error) the file is closed; it is open exactly while parse reads.
C14_FileReleased ==
    /\ pc \in {"returned", "df_returned", "failed"} => ~file_open
    /\ pc = "loop" => file_open

\* parse has failed on a number it could not convert, after reading a header
\* and a well-formed test result line, and the file is closed.
C14_Witness ==
    /\ pc = "failed"
    /\ err = Some("ValueError")
    /\ Len(consumed) = 3
    /\ result.read_results # <<>>
    /\ ~file_open

\* The test result lines whose rate or latency float() does not accept.
BadNumber(id) == id \in {"seq_dots", "rnd_dot"}

\* C16: a line the test result recogniser matches whose number text cannot be
\* converted ("1.2.3", ".") makes parse fail as a whole: it raises the
\* conversion error, returns no result, and no TestResult of that line is
\* appended to any sequence.
C16_BadNumberFails ==
    LET n == Len(consumed)
    IN  (n >= 1 /\ BadNumber(consumed[n])) =>
            /\ pc = "failed"
            /\ err = Some("ValueError")
            /\ ret = None
            /\ \A kind \in Sections :
                  result[FieldOf[kind]] = Attributed(consumed, kind, n - 1)

\* parse has failed on a test result line with rate 1.2.3 that follows a
\* header and a well-formed test result line.
C16_Witness ==
    /\ consumed = <<"hdr_read", "seq", "seq_dots">>
    /\ pc = "failed"
    /\ Len(result.read_results) = 1


\* The locals of the first call, as a record.
CallFrame ==
    [ pc |-> pc, consumed |-> consumed, read_or_write |-> read_or_write,
      result |-> result, file_open |-> file_open, ret |-> ret, err |-> err ]

\* The locals of a call that reads the lines cs with no other call running:
\* the loop body line after line, up to the line that raises.
RECURSIVE Alone(_)
Alone(cs) ==
    IF cs = <<>> THEN NewFrame
    ELSE LET before == Alone(SubSeq(cs, 1, Len(cs) - 1))
         IN  IF before.pc = "loop" THEN FrameAfterLine(before, cs[Len(cs)])
             ELSE before

\* The call with locals fr is where a call that runs alone on the same lines
\* is: the same section, the same result under construction, the same
\* failure, and what it returns is the result of the run alone.
AsAlone(fr) ==
    LET alone == Alone(fr.consumed)
    IN  /\ fr.read_or_write = alone.read_or_write
        /\ fr.result = alone.result
        /\ fr.pc \in {"loop", "returned"} => alone.pc = "loop"
        /\ fr.pc = "returned" => fr.ret = Some(alone.result)
        /\ (fr.pc = "failed" /\ fr.err # Some("UnicodeDecodeError")) =>
              (alone.pc = "failed" /\ alone.err = fr.err /\ fr.ret = None)

\* C15: two calls of parse whose line steps interleave are independent: each
\* has at every point the section and the result a call running alone on its
\* own lines has, and returns or fails as that call does.
C15_CallsIndependent == AsAlone(CallFrame) /\ AsAlone(peer)

\* Both calls are in their loops: the first has read [Read] and a test
\* result, the second [Write] and the same test result, and each has the
\* test result in the sequence of its own section only.
C15_Witness ==
    /\ pc = "loop"
    /\ peer.pc = "loop"
    /\ consumed = <<"hdr_read", "seq">>
    /\ peer.consumed = <<"hdr_write", "seq">>
    /\ Len(result.read_results) = 1
    /\ result.write_results = <<>>
    /\ Len(peer.result.write_results) = 1
    /\ peer.result.read_results = <<>>


\* The kinds of line in the precedence the specification gives: test result,
\* section header, then the metadata labels.
Precedence ==
    << "test_res", "read_or_write", "profile", "test", "mode", "time", "date",
       "os", "comment" >>

\* The same with the metadata labels in the opposite order.
PrecedenceLabelsReversed ==
    << "test_res", "read_or_write", "comment", "os", "date", "time", "mode",
       "test", "profile" >>

\* The pattern of the recogniser of each kind.
RxOf ==
    [ test_res |-> rx_test_res, read_or_write |-> rx_read_or_write,
      profile |-> rx_profile, test |-> rx_test, mode |-> rx_mode,
      time |-> rx_time, date |-> rx_date, os |-> rx_os, comment |-> rx_comment ]

\* Which recognisers match which line, each taken by itself.
Matches ==
    [ id \in LineIds |-> [ kind \in DOMAIN RxOf |-> Search(RxOf[kind], Text[id]).ok ] ]

\* The first kind of order whose recogniser matches line id, None when none
\* does.
FirstMatchIn(order, id) ==
    LET hits == {k \in 1..Len(order) : Matches[id][order[k]]}
    IN  IF hits = {} THEN None
        ELSE Some(order[CHOOSE k \in hits : \A h \in hits : k <= h])

\* The number of test results in the three sequences of a result.
NumResults(res) ==
    Len(res.read_results) + Len(res.write_results) + Len(res.mix_results)

\* The line a step of the loop has just read.
LineRead == consumed'[Len(consumed')]

\* A step of the loop handles the line it reads as one of kind first:
\* a test result leaves the section alone and adds one TestResult (or fails
\* and adds none), a header sets the section and nothing else, a metadata
\* line sets its field and resets the section, any other line only resets
\* the section.
HandledAs(first) ==
    /\ first = Some("test_res") =>
          /\ read_or_write' = read_or_write
          /\ \A f \in MetaFields : result'[f] = result[f]
          /\ pc' = "loop" => NumResults(result') = NumResults(result) + 1
          /\ pc' = "failed" => result' = result
    /\ first = Some("read_or_write") =>
          /\ read_or_write' # None
          /\ result' = result
          /\ pc' = "loop"
    /\ (first # None /\ first[1] \in MetaFields) =>
          /\ read_or_write' = None
          /\ result'[first[1]] # None
          /\ \A f \in DOMAIN result \ {first[1]} : result'[f] = result[f]
          /\ pc' = "loop"
    /\ first = None =>
          /\ read_or_write' = None
          /\ result' = result
          /\ pc' = "loop"

\* C17: classification is first match wins in a fixed precedence: every line
\* is handled as the first of test result, section header and the metadata
\* labels whose recogniser matches it; a line that both the test result and
\* the section header recogniser match is handled as a test result and
\* leaves the active section as it is.
C17_FirstMatchWins ==
    [][consumed' # consumed =>
          /\ HandledAs(FirstMatchIn(Precedence, LineRead))
          /\ (Matches[LineRead].test_res /\ Matches[LineRead].read_or_write) =>
                read_or_write' = read_or_write]_vars

\* After [Read], the line "[Write]  SEQ ..." has been read, which both
\* recognisers match: its test result is in read_results and the section is
\* still read.
C17_Witness ==
    /\ consumed = <<"hdr_read", "both">>
    /\ Matches.both.test_res
    /\ Matches.both.read_or_write
    /\ read_or_write = Some("read")
    /\ Len(result.read_results) = 1
    /\ result.write_results = <<>>

\* C18: the metadata recognisers are mutually exclusive: no line is matched
\* by more than one of the seven label recognisers, so the order in which
\* they are tried does not change how a line is classified ("Comment: Test:
\* x" sets the same field under every order).
C18_LabelsExclusive ==
    \A i \in 1..Len(consumed) :
        /\ Cardinality({f \in MetaFields : Matches[consumed[i]][f]}) <= 1
        /\ FirstMatchIn(Precedence, consumed[i]) =
              FirstMatchIn(PrecedenceLabelsReversed, consumed[i])

\* C19: the test result recogniser requires the newline: a test result line
\* is recorded when it ends with one; the same text as the last line of a
\* file without final newline is handled as an unrecognised line: no
\* TestResult is appended, no error is raised, and the section is reset.
C19_NoNewlineNotRecorded ==
    [][/\ Text.seq = Text.seq_nonl \o <<"\n">>
       /\ consumed' = Append(consumed, "seq_nonl") =>
             /\ result' = result
             /\ read_or_write' = None
             /\ pc' = "loop"
             /\ err' = None
       /\ (consumed' = Append(consumed, "seq") /\ read_or_write = Some("read")) =>
             /\ Len(result'.read_results) = Len(result.read_results) + 1
             /\ pc' = "loop"]_vars

\* parse has returned for [Read], a test result line, and the same line
\* without newline at the end of the file: one TestResult, no error.
C19_Witness ==
    /\ consumed = <<"hdr_read", "seq", "seq_nonl">>
    /\ pc = "returned"
    /\ err = None
    /\ read_or_write = None
    /\ Len(ret[1].read_results) = 1

\* The section tokens as they stand in a line, and the section each names.
SectionTokens ==
    [ read  |-> <<"[", "R", "e", "a", "d", "]">>,
      write |-> <<"[", "W", "r", "i", "t", "e", "]">>,
      mix   |-> <<"[", "M", "i", "x", "]">> ]

\* The sections whose token stands somewhere in line id.
TokensIn(id) ==
    {s \in Sections : \E p \in 1..Len(Text[id]) : HasAt(Text[id], p, SectionTokens[s])}

\* C20: a line that is not a test result and contains [Read], [Write] or
\* [Mix] anywhere, inside the value of a metadata line too, sets the active
\* section to that token and leaves every metadata field as it is.
C20_TokenAnywhereSetsSection ==
    [][(/\ consumed' # consumed
        /\ ~Matches[LineRead].test_res
        /\ TokensIn(LineRead) # {}) =>
             /\ read_or_write' # None
             /\ read_or_write'[1] \in TokensIn(LineRead)
             /\ result' = result
             /\ pc' = "loop"]_vars

\* "Comment: [Read] run" and then a test result line have been read: the
\* comment is not set and the test result is in read_results.
C20_Witness ==
    /\ consumed = <<"comment_read", "seq">>
    /\ pc = "loop"
    /\ result.comment = None
    /\ Len(result.read_results) = 1

=============================================================================
